---- MODULE Spec2Model ----
(***************************************************************************)
(* Resource-lifetime and error-translation model of libkrb5-rs.            *)
(*                                                                         *)
(* The native Kerberos library is the environment: every native call      *)
(* returns a status code (and an output handle or buffer) chosen           *)
(* nondeterministically.  The wrapper's code decides what is done with     *)
(* them, and the model counts every native release call per handle.        *)
(***************************************************************************)
EXTENDS Integers, Sequences, FiniteSets, TLC

\* ---------------------------------------------------------------- bounds
NumThreads == 2      \* threads calling into the wrapper
MaxCtx     == 2      \* contexts successfully created in one run
MaxDeps    == 3      \* caches, cursors and principals created in one run
MaxColl    == 2      \* caches visible in the native cache collection
MaxViews   == 1      \* simultaneously live PrincipalData views of a principal

Threads  == 1..NumThreads
NoThread == 0
NULL     == 0        \* the null pointer / zeroed MaybeUninit

\* krb5_error_code values the native library may hand back: success, the
\* "no default realm" status, and one other failure.
KRB5_CONFIG_NODEFREALM == -1765328160
StatusCodes == {0, 1, KRB5_CONFIG_NODEFREALM}
\* The codes drawn where only zero / nonzero matters.
NativeCodes == {0, 1}

VARIABLES
  lock,        \* CONTEXT_INIT_LOCK: the thread holding it, or NoThread
  poisoned,    \* CONTEXT_INIT_LOCK was released by a panicking thread
  pc,          \* per thread: where it is inside init / init_secure / drop
  tl,          \* per thread: locals of the running context operation
  contexts,    \* Krb5Context values, by creation order
  ccaches,     \* Krb5CCache values, by creation order
  cursors,     \* Krb5CCCol values, by creation order
  principals,  \* Krb5Principal values, by creation order
  fnIn,        \* the arguments and native answers of the function call under study
  lastOp       \* the last completed function call: arguments, result, native calls

vars == <<lock, poisoned, pc, tl, contexts, ccaches, cursors, principals, fnIn, lastOp>>

\* ------------------------------------------------------------------ text
\* Rust text is a sequence of characters: 0 is the NUL character (valid in a
\* Rust string), 1 a printable one.  Native memory is a sequence of bytes ending
\* with the terminator 0: byte 1 is printable ASCII, byte 2 is 0xFF, which
\* occurs in no valid UTF-8 text.  The null pointer is the empty sequence (no
\* C string occupies zero bytes).
MaxLen == 2          \* longest text / native string drawn

NullStr == <<>>

RECURSIVE SeqsUpTo(_, _)
SeqsUpTo(S, n) ==
  IF n = 0 THEN {<<>>}
  ELSE LET shorter == SeqsUpTo(S, n - 1)
       IN  shorter \cup {Append(q, x) : q \in {r \in shorter : Len(r) = n - 1}, x \in S}

RustStrs   == SeqsUpTo({0, 1}, MaxLen)
NativeStrs == {Append(q, 0) : q \in SeqsUpTo({1, 2}, MaxLen)}

NativePtrs == NativeStrs \cup {NullStr}

Ok(v)  == [ok |-> TRUE, val |-> v]
Err(e) == [ok |-> FALSE, val |-> e]

None    == [some |-> FALSE, v |-> <<>>]
Some(v) == [some |-> TRUE, v |-> v]

\* string_to_c_string: the text as a null-terminated byte string; text with an
\* interior NUL has no such form.
string_to_c_string(str) ==
  IF \E i \in DOMAIN str : str[i] = 0
  THEN Err("StringConversion")
  ELSE Ok(Append(str, 0))

\* The bytes of a C string up to its terminator.
RECURSIVE CStrBytes(_)
CStrBytes(mem) ==
  IF mem = <<>> \/ Head(mem) = 0 THEN <<>> ELSE <<Head(mem)>> \o CStrBytes(Tail(mem))

\* c_string_to_string: copies a native string to owned text; the native
\* buffer stays with the native library.
c_string_to_string(ptr) ==
  IF ptr = NullStr THEN Err("NullPointerDereference")
  ELSE LET bytes == CStrBytes(ptr)
       IN  IF \E i \in DOMAIN bytes : bytes[i] = 2
           THEN Err("StringConversion")
           ELSE Ok(bytes)

\* ------------------------------------------------------- error translation
\* Display for Krb5Error, for the two errors a conversion can raise: a text
\* the native library does not produce (characters 3 and 4).
Display(error) == IF error = "NullPointerDereference" THEN <<3>> ELSE <<4>>

\* error_code_to_message: krb5_get_error_message, then the copy to owned text;
\* krb5_free_error_message is in the Ok arm of the match only.  The result is
\* the text and the native calls made, in order.
error_code_to_message(msg) ==
  LET conv == c_string_to_string(msg)
  IN  IF conv.ok
      THEN [text |-> conv.val, degraded |-> FALSE,
            calls |-> <<"krb5_get_error_message", "krb5_free_error_message">>]
      ELSE [text |-> Display(conv.val), degraded |-> TRUE,
            calls |-> <<"krb5_get_error_message">>]

\* krb5_error_code_escape_hatch as it would be if a failed conversion of the
\* message were propagated with `?`.
krb5_error_code_escape_hatch_Propagating(code, msg) ==
  IF code = 0
  THEN [kind |-> "Ok", val |-> <<>>, calls |-> <<>>]
  ELSE LET m == error_code_to_message(msg)
       IN  IF m.degraded
           THEN [kind |-> c_string_to_string(msg).val, val |-> <<>>, calls |-> m.calls]
           ELSE [kind |-> "LibraryError", val |-> m.text, calls |-> m.calls]

\* krb5_error_code_escape_hatch(context, code), msg being the message the
\* native library holds for the code.
krb5_error_code_escape_hatch(code, msg) ==
  IF code = 0
  THEN [kind |-> "Ok", val |-> <<>>, calls |-> <<>>]
  ELSE LET m == error_code_to_message(msg)
       IN  [kind |-> "LibraryError", val |-> m.text, calls |-> m.calls]

\* The error kind alone, where the message plays no part.
EscapeHatchKind(code) == krb5_error_code_escape_hatch(code, NullStr).kind

\* What the caller under study sees of a call: its result r and the native
\* calls it made, kept in lastOp.  Calls made in passing leave lastOp alone.
Observe(observed, op, r) ==
  IF observed
  THEN [op |-> op, kind |-> r.kind, val |-> r.val, calls |-> r.calls]
  ELSE lastOp

\* ------------------------------------------------- borrows of a Krb5Context
LiveCaches(c)     == {k \in DOMAIN ccaches : ccaches[k].state = "live" /\ ccaches[k].ctx = c}
LiveCursors(c)    == {u \in DOMAIN cursors : cursors[u].state = "live" /\ cursors[u].ctx = c}
LivePrincipals(c) == {p \in DOMAIN principals : principals[p].state = "live" /\ principals[p].ctx = c}

\* NoDependents as it would be if Krb5Principal and Krb5CCCol kept a copy of the
\* raw context handle instead of a borrow of the Krb5Context.
NoDependents_CachesOnly(c) == LiveCaches(c) = {}

\* A value holding `&'a Krb5Context` keeps the context borrowed: the context
\* can be moved into drop only when no such value is left.
NoDependents(c) ==
  /\ LiveCaches(c) = {}
  /\ LiveCursors(c) = {}
  /\ LivePrincipals(c) = {}

\* The values created so far that borrow a context.
Deps == Len(ccaches) + Len(cursors) + Len(principals)

\* A `&Krb5Context` can be handed to an operation by the thread that owns the
\* context (the raw handle makes Krb5Context neither Send nor Sync), while that
\* thread is not inside another call.
Usable(c) ==
  /\ c \in DOMAIN contexts
  /\ contexts[c].state = "live"
  /\ pc[contexts[c].owner] = "idle"

\* ------------------------------------------------------ CONTEXT_INIT_LOCK
\* Mutex::lock() as called by thread t: blocks while another thread holds the
\* lock; on a free lock it returns the guard, or Err(PoisonError) if poisoned;
\* called by the holder itself it never returns (it deadlocks or panics).
LockOutcomes(t) ==
  IF lock = NoThread THEN (IF poisoned THEN {"poisoned"} ELSE {"acquired"})
  ELSE IF lock = t THEN {"deadlock", "panic"}
  ELSE {}

\* ----------------------------------------------------------- Krb5Context
\* The locals of a context operation: the native status, the handle in the
\* Krb5Context value at hand, the result, and the context handles the
\* operation has passed to the native library so far.
Blank == [code |-> 0, ctx |-> NULL, ret |-> "none", passed |-> {}]

\* init() / init_secure(): lock().expect(..), then the native initializer is
\* entered.  On a poisoned lock expect() panics (the guard inside the error
\* is dropped with it).
InitLock(t, secure) ==
  /\ pc[t] = "idle"
  /\ \E o \in LockOutcomes(t) :
       \/ /\ o = "acquired"
          /\ lock' = t
          /\ pc' = [pc EXCEPT ![t] = IF secure THEN "krb5_init_secure_context"
                                               ELSE "krb5_init_context"]
       \/ /\ o = "poisoned"
          /\ pc' = [pc EXCEPT ![t] = "panicked"]
          /\ lock' = lock
  /\ UNCHANGED <<poisoned, tl, contexts, ccaches, cursors, principals, fnIn, lastOp>>

Init_(t) == InitLock(t, FALSE)

InitSecure(t) == InitLock(t, TRUE)

\* The native initializer returns: a status code, and on success a fresh
\* context handle stored through context_ptr; on failure context_ptr stays
\* zeroed.  The Krb5Context value is built from context_ptr either way.
InitNativeReturn(t) ==
  /\ pc[t] \in {"krb5_init_context", "krb5_init_secure_context"}
  /\ \E code \in NativeCodes :
       IF code = 0
       THEN /\ Len(contexts) < MaxCtx
            /\ contexts' = Append(contexts, [state |-> "live", owner |-> t, frees |-> 0])
            /\ tl' = [tl EXCEPT ![t] = [code |-> 0, ctx |-> Len(contexts) + 1, ret |-> "none",
                                            passed |-> {}]]
       ELSE /\ contexts' = contexts
            /\ tl' = [tl EXCEPT ![t] = [code |-> code, ctx |-> NULL, ret |-> "none",
                                            passed |-> {}]]
  /\ pc' = [pc EXCEPT ![t] = "init_called"]
  /\ UNCHANGED <<lock, poisoned, ccaches, cursors, principals, fnIn, lastOp>>

\* krb5_error_code_escape_hatch(&context, code)?; Ok(context)
\* On success the guard is dropped and the context handed out.  On failure the
\* `?` returns, and the locals are dropped in reverse order of declaration:
\* `context` first, with `_guard` still held.  The escape hatch has by then
\* called krb5_get_error_message(context.context, code) for the message.
InitReturn(t) ==
  /\ pc[t] = "init_called"
  /\ IF EscapeHatchKind(tl[t].code) = "Ok"
     THEN /\ lock' = NoThread
          /\ pc' = [pc EXCEPT ![t] = "returned"]
          /\ tl' = [tl EXCEPT ![t].ret = "Ok"]
     ELSE /\ pc' = [pc EXCEPT ![t] = "init_failed_drop"]
          /\ tl' = [tl EXCEPT ![t].passed = @ \cup {tl[t].ctx}]
          /\ lock' = lock
  /\ UNCHANGED <<poisoned, contexts, ccaches, cursors, principals, fnIn, lastOp>>

\* Drop for Krb5Context run on the context of a failed init: lock() is called
\* with the guard of init() still held.  A panic unwinds init(), which drops
\* that guard and thereby poisons the lock.
InitFailedDrop(t) ==
  /\ pc[t] = "init_failed_drop"
  /\ \E o \in LockOutcomes(t) :
       \/ /\ o = "deadlock"
          /\ pc' = [pc EXCEPT ![t] = "deadlocked"]
          /\ UNCHANGED <<lock, poisoned, tl>>
       \/ /\ o = "panic"
          /\ lock' = NoThread
          /\ poisoned' = TRUE
          /\ pc' = [pc EXCEPT ![t] = "panicked"]
          /\ tl' = tl
       \/ /\ o = "acquired"
          /\ lock' = t
          /\ pc' = [pc EXCEPT ![t] = "krb5_free_context"]
          /\ tl' = [tl EXCEPT ![t].passed = @ \cup {tl[t].ctx}]
          /\ poisoned' = poisoned
       \/ /\ o = "poisoned"
          /\ pc' = [pc EXCEPT ![t] = "panicked"]
          /\ UNCHANGED <<lock, poisoned, tl>>
  /\ UNCHANGED <<contexts, ccaches, cursors, principals, fnIn, lastOp>>

\* DropContextLock as it would be if drop() called krb5_free_context without
\* taking CONTEXT_INIT_LOCK.
DropContextLock_Unlocked(t, c) ==
  /\ pc[t] = "idle"
  /\ c \in DOMAIN contexts
  /\ contexts[c].state = "live"
  /\ contexts[c].owner = t
  /\ NoDependents(c)
  /\ pc' = [pc EXCEPT ![t] = "krb5_free_context"]
  /\ tl' = [tl EXCEPT ![t] = [code |-> 0, ctx |-> c, ret |-> "none", passed |-> {c}]]
  /\ contexts' = [contexts EXCEPT ![c].state = "dropping", ![c].frees = @ + 1]
  /\ UNCHANGED <<lock, poisoned, ccaches, cursors, principals, fnIn, lastOp>>

\* Drop for Krb5Context, first half: lock().expect(..); krb5_free_context is
\* entered with the guard held.  On a poisoned lock expect() panics and the
\* handle is never freed.
DropContextLock(t, c) ==
  /\ pc[t] = "idle"
  /\ c \in DOMAIN contexts
  /\ contexts[c].state = "live"
  /\ contexts[c].owner = t
  /\ NoDependents(c)
  /\ \E o \in LockOutcomes(t) :
       \/ /\ o = "acquired"
          /\ lock' = t
          /\ pc' = [pc EXCEPT ![t] = "krb5_free_context"]
          /\ tl' = [tl EXCEPT ![t] = [code |-> 0, ctx |-> c, ret |-> "none", passed |-> {c}]]
          /\ contexts' = [contexts EXCEPT ![c].state = "dropping", ![c].frees = @ + 1]
       \/ /\ o = "poisoned"
          /\ pc' = [pc EXCEPT ![t] = "panicked"]
          /\ contexts' = [contexts EXCEPT ![c].state = "leaked"]
          /\ UNCHANGED <<lock, tl>>
  /\ UNCHANGED <<poisoned, ccaches, cursors, principals, fnIn, lastOp>>

\* Drop for Krb5Context, second half: krb5_free_context returns and the guard
\* taken by drop is dropped.  (After a failed init, were drop to get that far,
\* init() would then drop its own guard and return the LibraryError.)
DropContextFree(t) ==
  /\ pc[t] = "krb5_free_context"
  /\ lock' = NoThread
  /\ IF tl[t].code = 0
     THEN /\ contexts' = [contexts EXCEPT ![tl[t].ctx].state = "freed"]
          /\ pc' = [pc EXCEPT ![t] = "idle"]
          /\ tl' = [tl EXCEPT ![t] = Blank]
     ELSE /\ contexts' = contexts
          /\ pc' = [pc EXCEPT ![t] = "returned"]
          /\ tl' = [tl EXCEPT ![t].ret = "LibraryError"]
  /\ UNCHANGED <<poisoned, ccaches, cursors, principals, fnIn, lastOp>>

\* The caller of init() has its result, or has caught the panic, and goes on.
Continue(t) ==
  /\ pc[t] \in {"returned", "panicked"}
  /\ pc' = [pc EXCEPT ![t] = "idle"]
  /\ tl' = [tl EXCEPT ![t] = Blank]
  /\ UNCHANGED <<lock, poisoned, contexts, ccaches, cursors, principals, fnIn, lastOp>>

\* ------------------------------------------------------------ Krb5CCache
\* A principal returned by get_principal(&self) keeps the cache borrowed: the
\* cache cannot be moved (into destroy or drop) while one is live.
Unborrowed(k) ==
  \A p \in DOMAIN principals : ~(principals[p].state = "live" /\ principals[p].cache = k)

\* A Krb5CCache value: its context, the cursor that yielded it (0 if a
\* constructor returned it), and the native calls made on its handle.
NewCCacheFrom(c, u) ==
  [state |-> "live", ctx |-> c, cursor |-> u, closes |-> 0, destroys |-> 0,
   destroyRet |-> "none"]

NewCCache(c) == NewCCacheFrom(c, 0)

\* Drop for Krb5CCache: krb5_cc_close on the handle; the value is gone.
CCacheDropped(cc) == [cc EXCEPT !.state = "gone", !.closes = @ + 1]

\* The tail shared by default / resolve / new_unique: the status goes through
\* the escape hatch, and only then is the Krb5CCache value built.
\* CCacheAcquire as it would be if the Krb5CCache value were built before the
\* status is examined: on failure the `?` drops it, closing the unset handle.
CCacheAcquire_ValueFirst(c, op, native, code, msg, observed) ==
  /\ Usable(c)
  /\ Deps < MaxDeps
  /\ LET hatch == krb5_error_code_escape_hatch(code, msg)
     IN  /\ ccaches' = Append(ccaches, IF hatch.kind = "Ok" THEN NewCCache(c)
                                                           ELSE CCacheDropped(NewCCache(c)))
         /\ lastOp' = Observe(observed, op,
                               [kind |-> hatch.kind, val |-> hatch.val,
                                calls |-> <<native>> \o hatch.calls])
  /\ UNCHANGED <<lock, poisoned, pc, tl, contexts, cursors, principals, fnIn>>

\* op is the constructor, native the call it wraps, code and msg the native
\* library's status and message.
CCacheAcquire(c, op, native, code, msg, observed) ==
  /\ Usable(c)
  /\ LET hatch == krb5_error_code_escape_hatch(code, msg)
     IN  /\ IF hatch.kind = "Ok"
            THEN /\ Deps < MaxDeps
                 /\ ccaches' = Append(ccaches, NewCCache(c))
            ELSE ccaches' = ccaches
         /\ lastOp' = Observe(observed, op,
                               [kind |-> hatch.kind, val |-> hatch.val,
                                calls |-> <<native>> \o hatch.calls])
  /\ UNCHANGED <<lock, poisoned, pc, tl, contexts, cursors, principals, fnIn>>

\* A text argument did not convert: StringConversion before any native call.
CCacheNameRejected(c, op, observed) ==
  /\ Usable(c)
  /\ lastOp' = Observe(observed, op,
                        [kind |-> "StringConversion", val |-> <<>>, calls |-> <<>>])
  /\ UNCHANGED <<lock, poisoned, pc, tl, contexts, ccaches, cursors, principals, fnIn>>

CCacheDefault(c, code, msg, observed) ==
  CCacheAcquire(c, "default", "krb5_cc_default", code, msg, observed)

\* resolve and new_unique convert their text argument first.
CCacheResolve(c, name, code, msg, observed) ==
  IF string_to_c_string(name).ok
  THEN CCacheAcquire(c, "resolve", "krb5_cc_resolve", code, msg, observed)
  ELSE CCacheNameRejected(c, "resolve", observed)

CCacheNewUnique(c, cctype, code, msg, observed) ==
  IF string_to_c_string(cctype).ok
  THEN CCacheAcquire(c, "new_unique", "krb5_cc_new_unique", code, msg, observed)
  ELSE CCacheNameRejected(c, "new_unique", observed)

\* destroy(self): krb5_cc_destroy, the status through the escape hatch, and at
\* the end of the function (on the `?` return as on Ok(())) `self` goes out of
\* scope, which runs Drop for Krb5CCache on it.
CCacheDestroy(k) ==
  /\ k \in DOMAIN ccaches
  /\ ccaches[k].state = "live"
  /\ Usable(ccaches[k].ctx)
  /\ Unborrowed(k)
  /\ \E code \in NativeCodes :
       ccaches' = [ccaches EXCEPT ![k] =
                     CCacheDropped([@ EXCEPT !.destroys = @ + 1,
                                             !.destroyRet = EscapeHatchKind(code)])]
  /\ UNCHANGED <<lock, poisoned, pc, tl, contexts, cursors, principals, fnIn, lastOp>>

\* The cache value goes out of scope.
CCacheDrop(k) ==
  /\ k \in DOMAIN ccaches
  /\ ccaches[k].state = "live"
  /\ Usable(ccaches[k].ctx)
  /\ Unborrowed(k)
  /\ ccaches' = [ccaches EXCEPT ![k] = CCacheDropped(@)]
  /\ UNCHANGED <<lock, poisoned, pc, tl, contexts, cursors, principals, fnIn, lastOp>>

\* ------------------------------------------------------------- Krb5CCCol
\* new(): krb5_cccol_cursor_new, escape hatch, then the value is built.  The
\* native cursor ranges over the n caches visible at that time.
\* A Krb5CCCol value.  The struct holds the context and the native cursor
\* only (no flag that the sequence has ended); the other fields record what
\* the native cursor ranges over (coll, pos) and what next() has done so far:
\* the elements yielded, and the item and the native status of the last call.
NewCCCol(c, n) ==
  [state |-> "live", ctx |-> c, coll |-> n, pos |-> 0, yielded |-> <<>>,
   last |-> "none", lastCode |-> 0, frees |-> 0]

CCColNew(c, code, n, msg, observed) ==
  /\ Usable(c)
  /\ LET hatch == krb5_error_code_escape_hatch(code, msg)
     IN  /\ IF hatch.kind = "Ok"
            THEN /\ Deps < MaxDeps
                 /\ cursors' = Append(cursors, NewCCCol(c, n))
            ELSE cursors' = cursors
         /\ lastOp' = Observe(observed, "cccol_new",
                               [kind |-> hatch.kind, val |-> hatch.val,
                                calls |-> <<"krb5_cccol_cursor_new">> \o hatch.calls])
  /\ UNCHANGED <<lock, poisoned, pc, tl, contexts, ccaches, principals, fnIn>>

\* krb5_cccol_cursor_next as the native library answers it: on success the
\* next cache handle of the collection (its position, 1..coll), or the null
\* handle once all have been handed out; on failure nothing is stored.
NativeCursorNext(cur, code) ==
  IF code = 0 /\ cur.pos < cur.coll THEN cur.pos + 1 ELSE NULL

\* CCColNextItem as it would be without the is_null() test.
CCColNextItem_NoNullTest(code, ptr) ==
  IF EscapeHatchKind(code) # "Ok" THEN "None" ELSE "SomeOk"

\* What next() makes of the native answer:
\*   krb5_error_code_escape_hatch(..).ok()?   -- a nonzero status becomes None
\*   if ccache_ptr.is_null() { return None }
\*   Some(Ok(ccache))
CCColNextItem(code, ptr) ==
  IF EscapeHatchKind(code) # "Ok" THEN "None"
  ELSE IF ptr = NULL THEN "None"
  ELSE "SomeOk"

CCColNext(u) ==
  /\ u \in DOMAIN cursors
  /\ cursors[u].state = "live"
  /\ Usable(cursors[u].ctx)
  /\ \E code \in NativeCodes :
       LET ptr  == NativeCursorNext(cursors[u], code)
           item == CCColNextItem(code, ptr)
       IN  /\ cursors' = [cursors EXCEPT
                 ![u].pos      = IF ptr = NULL THEN @ ELSE @ + 1,
                 ![u].last     = item,
                 ![u].lastCode = code,
                 ![u].yielded  = IF item = "SomeOk" THEN Append(@, ptr) ELSE @]
           /\ IF item = "SomeOk"
              THEN /\ Deps < MaxDeps
                   /\ ccaches' = Append(ccaches, NewCCacheFrom(cursors[u].ctx, u))
              ELSE ccaches' = ccaches
  /\ UNCHANGED <<lock, poisoned, pc, tl, contexts, principals, fnIn, lastOp>>

\* CCColDropped as it would be if drop() did not call krb5_cccol_cursor_free.
CCColDropped_NoFree(cur) == [cur EXCEPT !.state = "gone"]

\* Drop for Krb5CCCol: krb5_cccol_cursor_free.
CCColDropped(cur) == [cur EXCEPT !.state = "gone", !.frees = @ + 1]

CCColDrop(u) ==
  /\ u \in DOMAIN cursors
  /\ cursors[u].state = "live"
  /\ Usable(cursors[u].ctx)
  /\ cursors' = [cursors EXCEPT ![u] = CCColDropped(@)]
  /\ UNCHANGED <<lock, poisoned, pc, tl, contexts, ccaches, principals, fnIn, lastOp>>

\* ---------------------------------------------------------- Krb5Principal
\* The realm the native library stores in a principal built from the first
\* realml bytes at crealm: a null-terminated copy of them.
NativeRealm(crealm, realml) == Append(SubSeq(crealm, 1, realml), 0)

MaxVarArgs == 4      \* the last arm of the match that makes the native call

\* RealmLen as it would be if the length passed on were one byte short.
RealmLen_Short(realm) == Len(realm) - 1

\* realm.len() as u32: the length of the realm in bytes.
RealmLen(realm) == Len(realm)

\* build_principal as it would be if the match on args.len() came before the
\* conversions.
build_principal_CountFirst(realm, args, code, msg) ==
  LET crealm  == string_to_c_string(realm)
      realml  == RealmLen(realm)
      varargs == [i \in DOMAIN args |-> string_to_c_string(args[i])]
  IN  IF Len(args) > MaxVarArgs
      THEN [kind |-> "MaxVarArgsExceeded", val |-> <<>>, calls |-> <<>>]
      ELSE IF ~crealm.ok \/ \E i \in DOMAIN args : ~varargs[i].ok
      THEN [kind |-> "StringConversion", val |-> <<>>, calls |-> <<>>]
      ELSE LET hatch == krb5_error_code_escape_hatch(code, msg)
           IN  IF hatch.kind # "Ok"
               THEN [kind |-> hatch.kind, val |-> hatch.val,
                     calls |-> <<"krb5_build_principal">> \o hatch.calls]
               ELSE [kind |-> "Ok", val |-> NativeRealm(crealm.val, realml),
                     calls |-> <<"krb5_build_principal">>]

\* build_principal as it would be if the match passed the first MaxVarArgs
\* components on when more are given.
build_principal_Truncating(realm, args, code, msg) ==
  LET crealm  == string_to_c_string(realm)
      realml  == RealmLen(realm)
      varargs == [i \in DOMAIN args |-> string_to_c_string(args[i])]
      hatch   == krb5_error_code_escape_hatch(code, msg)
  IN  IF ~crealm.ok \/ \E i \in DOMAIN args : ~varargs[i].ok
      THEN [kind |-> "StringConversion", val |-> <<>>, calls |-> <<>>]
      ELSE IF hatch.kind # "Ok"
      THEN [kind |-> hatch.kind, val |-> hatch.val,
            calls |-> <<"krb5_build_principal">> \o hatch.calls]
      ELSE [kind |-> "Ok", val |-> NativeRealm(crealm.val, realml),
            calls |-> <<"krb5_build_principal">>]

\* build_principal(realm, args), code and msg being the native library's
\* status and message: the result kind, its value and the native calls made.
build_principal(realm, args, code, msg) ==
  LET crealm  == string_to_c_string(realm)
      realml  == RealmLen(realm)
      varargs == [i \in DOMAIN args |-> string_to_c_string(args[i])]
  IN  IF ~crealm.ok \/ \E i \in DOMAIN args : ~varargs[i].ok
      THEN [kind |-> "StringConversion", val |-> <<>>, calls |-> <<>>]
      ELSE IF Len(args) > MaxVarArgs
      THEN [kind |-> "MaxVarArgsExceeded", val |-> <<>>, calls |-> <<>>]
      ELSE LET hatch == krb5_error_code_escape_hatch(code, msg)
           IN  IF hatch.kind # "Ok"
               THEN [kind |-> hatch.kind, val |-> hatch.val,
                     calls |-> <<"krb5_build_principal">> \o hatch.calls]
               ELSE [kind |-> "Ok", val |-> NativeRealm(crealm.val, realml),
                     calls |-> <<"krb5_build_principal">>]

\* realm() has not been called on a view of the principal.
Unread == Err("unread")

\* A handle the native library has not handed out before.
NativeHandle == Len(principals) + 1

\* A Krb5Principal value: its context, the cache it was read from (0 if
\* built), the native handle it owns, the realm stored behind the handle, the
\* views borrowing it, what realm() last returned on a view of it, and the
\* krb5_free_principal calls made on the handle.
NewPrincipal(c, k, handle, realm) ==
  [state |-> "live", ctx |-> c, cache |-> k, handle |-> handle, realm |-> realm,
   views |-> 0, decoded |-> Unread, frees |-> 0]

BuildPrincipal(c, realm, args, code, msg) ==
  /\ Usable(c)
  /\ LET r == build_principal(realm, args, code, msg)
     IN  /\ IF r.kind = "Ok"
            THEN /\ Deps < MaxDeps
                 /\ principals' = Append(principals, NewPrincipal(c, 0, NativeHandle, r.val))
            ELSE principals' = principals
         /\ lastOp' = [op |-> "build_principal", kind |-> r.kind, val |-> r.val,
                       calls |-> r.calls]
  /\ UNCHANGED <<lock, poisoned, pc, tl, contexts, ccaches, cursors, fnIn>>

\* get_principal as it would be without the is_null() test.
get_principal_NoNullTest(code, ptr, msg) ==
  LET hatch == krb5_error_code_escape_hatch(code, msg)
  IN  IF hatch.kind # "Ok"
      THEN [kind |-> hatch.kind, val |-> hatch.val,
            calls |-> <<"krb5_cc_get_principal">> \o hatch.calls]
      ELSE [kind |-> "Ok", val |-> Some(ptr), calls |-> <<"krb5_cc_get_principal">>]

\* get_principal(&self), ptr being what krb5_cc_get_principal left in
\* principal_ptr: LibraryError on a nonzero status, None on a null handle,
\* else the handle wrapped in a principal.
get_principal(code, ptr, msg) ==
  LET hatch == krb5_error_code_escape_hatch(code, msg)
  IN  IF hatch.kind # "Ok"
      THEN [kind |-> hatch.kind, val |-> hatch.val,
            calls |-> <<"krb5_cc_get_principal">> \o hatch.calls]
      ELSE IF ptr = NULL
      THEN [kind |-> "Ok", val |-> None, calls |-> <<"krb5_cc_get_principal">>]
      ELSE [kind |-> "Ok", val |-> Some(ptr), calls |-> <<"krb5_cc_get_principal">>]

\* The principal borrows the cache's context for as long as the cache is
\* borrowed.  The realm behind a handle read from a cache is one the native
\* library chose.
CCacheGetPrincipal(k, code, ptr, msg, observed) ==
  /\ k \in DOMAIN ccaches
  /\ ccaches[k].state = "live"
  /\ Usable(ccaches[k].ctx)
  /\ LET r == get_principal(code, ptr, msg)
     IN  /\ IF r.kind = "Ok" /\ r.val.some
            THEN /\ Deps < MaxDeps
                 /\ principals' = Append(principals,
                                          NewPrincipal(ccaches[k].ctx, k, r.val.v, <<1, 0>>))
            ELSE principals' = principals
         /\ lastOp' = Observe(observed, "get_principal", r)
  /\ UNCHANGED <<lock, poisoned, pc, tl, contexts, ccaches, cursors, fnIn>>

\* data(&self): a view that borrows the principal; dropping it runs no code.
PrincipalData(p) ==
  /\ p \in DOMAIN principals
  /\ principals[p].state = "live"
  /\ Usable(principals[p].ctx)
  /\ principals[p].views < MaxViews
  /\ principals' = [principals EXCEPT ![p].views = @ + 1]
  /\ UNCHANGED <<lock, poisoned, pc, tl, contexts, ccaches, cursors, fnIn, lastOp>>

\* realm(&self) on a view: the bytes at realm.data read as a C string.
PrincipalDataRealm(p) ==
  /\ p \in DOMAIN principals
  /\ principals[p].state = "live"
  /\ Usable(principals[p].ctx)
  /\ principals[p].views > 0
  /\ principals' = [principals EXCEPT ![p].decoded = c_string_to_string(principals[p].realm)]
  /\ UNCHANGED <<lock, poisoned, pc, tl, contexts, ccaches, cursors, fnIn, lastOp>>

\* PrincipalDataDropped as it would be if the view released the handle it
\* holds a copy of.
PrincipalDataDropped_Freeing(pr) == [pr EXCEPT !.views = @ - 1, !.frees = @ + 1]

\* A view goes out of scope: Krb5PrincipalData has no Drop.
PrincipalDataDropped(pr) == [pr EXCEPT !.views = @ - 1]

PrincipalDataDrop(p) ==
  /\ p \in DOMAIN principals
  /\ principals[p].state = "live"
  /\ Usable(principals[p].ctx)
  /\ principals[p].views > 0
  /\ principals' = [principals EXCEPT ![p] = PrincipalDataDropped(@)]
  /\ UNCHANGED <<lock, poisoned, pc, tl, contexts, ccaches, cursors, fnIn, lastOp>>

\* Drop for Krb5Principal: krb5_free_principal.  No view borrows it any more.
PrincipalDrop(p) ==
  /\ p \in DOMAIN principals
  /\ principals[p].state = "live"
  /\ Usable(principals[p].ctx)
  /\ principals[p].views = 0
  /\ principals' = [principals EXCEPT ![p].state = "gone", ![p].frees = @ + 1]
  /\ UNCHANGED <<lock, poisoned, pc, tl, contexts, ccaches, cursors, fnIn, lastOp>>

\* ----------------------------------------- realm queries of Krb5Context
\* get_default_realm as it would be without the test for
\* KRB5_CONFIG_NODEFREALM: that status goes through the escape hatch.
get_default_realm_NoAbsence(code, realm, msg) ==
  LET hatch == krb5_error_code_escape_hatch(code, msg)
      conv  == c_string_to_string(realm)
  IN  IF hatch.kind # "Ok"
      THEN [kind |-> hatch.kind, val |-> hatch.val,
            calls |-> <<"krb5_get_default_realm">> \o hatch.calls]
      ELSE IF ~conv.ok
      THEN [kind |-> conv.val, val |-> <<>>, calls |-> <<"krb5_get_default_realm">>]
      ELSE [kind |-> "Ok", val |-> Some(conv.val),
            calls |-> <<"krb5_get_default_realm", "krb5_free_default_realm">>]

\* get_default_realm(), realm being the string the native call hands back
\* when its status is zero.
get_default_realm(code, realm, msg) ==
  IF code = KRB5_CONFIG_NODEFREALM
  THEN [kind |-> "Ok", val |-> None, calls |-> <<"krb5_get_default_realm">>]
  ELSE LET hatch == krb5_error_code_escape_hatch(code, msg)
           conv  == c_string_to_string(realm)
       IN  IF hatch.kind # "Ok"
           THEN [kind |-> hatch.kind, val |-> hatch.val,
                 calls |-> <<"krb5_get_default_realm">> \o hatch.calls]
           ELSE IF ~conv.ok
           THEN [kind |-> conv.val, val |-> <<>>, calls |-> <<"krb5_get_default_realm">>]
           ELSE [kind |-> "Ok", val |-> Some(conv.val),
                 calls |-> <<"krb5_get_default_realm", "krb5_free_default_realm">>]

\* The loop of get_host_realms over the null-terminated array: the realms
\* copied so far, or the error of the first entry that does not convert.
RECURSIVE CopyRealms(_, _)
CopyRealms(c_realms, realms) ==
  IF c_realms = <<>> THEN Ok(realms)
  ELSE LET conv == c_string_to_string(Head(c_realms))
       IN  IF ~conv.ok THEN Err(conv.val)
           ELSE CopyRealms(Tail(c_realms), Append(realms, conv.val))

\* get_host_realms(host), c_realms being the entries of the array the native
\* call hands back when its status is zero.
get_host_realms(host, code, c_realms, msg) ==
  LET c_host == IF host.some THEN string_to_c_string(host.v) ELSE Ok(NullStr)
  IN  IF ~c_host.ok
      THEN [kind |-> c_host.val, val |-> <<>>, calls |-> <<>>]
      ELSE LET hatch == krb5_error_code_escape_hatch(code, msg)
               copy  == CopyRealms(c_realms, <<>>)
           IN  IF hatch.kind # "Ok"
               THEN [kind |-> hatch.kind, val |-> hatch.val,
                     calls |-> <<"krb5_get_host_realm">> \o hatch.calls]
               ELSE IF ~copy.ok
               THEN [kind |-> copy.val, val |-> <<>>, calls |-> <<"krb5_get_host_realm">>]
               ELSE [kind |-> "Ok", val |-> copy.val,
                     calls |-> <<"krb5_get_host_realm", "krb5_free_host_realm">>]

GetDefaultRealm(c, code, realm, msg) ==
  /\ Usable(c)
  /\ LET r == get_default_realm(code, realm, msg)
     IN  lastOp' = [op |-> "get_default_realm", kind |-> r.kind, val |-> r.val,
                    calls |-> r.calls]
  /\ UNCHANGED <<lock, poisoned, pc, tl, contexts, ccaches, cursors, principals, fnIn>>

GetHostRealms(c, host, code, c_realms, msg) ==
  /\ Usable(c)
  /\ LET r == get_host_realms(host, code, c_realms, msg)
     IN  lastOp' = [op |-> "get_host_realms", kind |-> r.kind, val |-> r.val,
                    calls |-> r.calls]
  /\ UNCHANGED <<lock, poisoned, pc, tl, contexts, ccaches, cursors, principals, fnIn>>

\* A caller of krb5_error_code_escape_hatch hands it a status.
ErrorCodeEscapeHatch(c, code, msg) ==
  /\ Usable(c)
  /\ LET r == krb5_error_code_escape_hatch(code, msg)
     IN  lastOp' = [op |-> "krb5_error_code_escape_hatch", kind |-> r.kind, val |-> r.val,
                    calls |-> r.calls]
  /\ UNCHANGED <<lock, poisoned, pc, tl, contexts, ccaches, cursors, principals, fnIn>>

\* ------------------------------------------------------- specifications
NoOp == [op |-> "none", kind |-> "none", val |-> <<>>, calls |-> <<>>]

\* The process before the first call into the wrapper.
Init ==
  /\ lock = NoThread
  /\ poisoned = FALSE
  /\ pc = [t \in Threads |-> "idle"]
  /\ tl = [t \in Threads |-> Blank]
  /\ contexts = <<>>
  /\ ccaches = <<>>
  /\ cursors = <<>>
  /\ principals = <<>>
  /\ fnIn = [op |-> "none"]
  /\ lastOp = NoOp

CtxStep(t) ==
  \/ Init_(t)
  \/ InitSecure(t)
  \/ InitNativeReturn(t)
  \/ InitReturn(t)
  \/ InitFailedDrop(t)
  \/ \E c \in DOMAIN contexts : DropContextLock(t, c)
  \/ DropContextFree(t)
  \/ Continue(t)

CtxNext == \E t \in Threads : CtxStep(t)

\* The names handed to resolve and new_unique while the context is in use:
\* one that converts and one that does not.
CacheNames == {q \in RustStrs : Len(q) = 1}

DepNext ==
  \/ \E c \in DOMAIN contexts, code \in NativeCodes :
        CCacheDefault(c, code, NullStr, FALSE)
  \/ \E c \in DOMAIN contexts, name \in CacheNames, code \in NativeCodes :
        CCacheResolve(c, name, code, NullStr, FALSE)
  \/ \E c \in DOMAIN contexts, cctype \in CacheNames, code \in NativeCodes :
        CCacheNewUnique(c, cctype, code, NullStr, FALSE)
  \/ \E k \in DOMAIN ccaches : CCacheDestroy(k)
  \/ \E k \in DOMAIN ccaches : CCacheDrop(k)
  \/ \E k \in DOMAIN ccaches, code \in NativeCodes, ptr \in {NULL, NativeHandle} :
        \* a failed call stores no handle
        (code # 0 => ptr = NULL) /\ CCacheGetPrincipal(k, code, ptr, NullStr, FALSE)
  \/ \E c \in DOMAIN contexts, code \in NativeCodes, n \in 0..MaxColl :
        \* a failed call creates no native cursor
        (code # 0 => n = 0) /\ CCColNew(c, code, n, NullStr, FALSE)
  \/ \E u \in DOMAIN cursors : CCColNext(u)
  \/ \E u \in DOMAIN cursors : CCColDrop(u)
  \/ \E p \in DOMAIN principals : PrincipalData(p)
  \/ \E p \in DOMAIN principals : PrincipalDataDrop(p)
  \/ \E p \in DOMAIN principals : PrincipalDrop(p)

\* One thread holds a context from a successful init() and uses it: it
\* creates, uses and releases the values that borrow the context, and drops
\* the context.  Those values stay on the thread that owns the context;
\* threads meet only at CONTEXT_INIT_LOCK, which LockSpec covers.
MainThread == CHOOSE t \in Threads : \A u \in Threads : t <= u

Init1 ==
  /\ lock = NoThread
  /\ poisoned = FALSE
  /\ pc = [t \in Threads |-> "idle"]
  /\ tl = [t \in Threads |-> Blank]
  /\ contexts = <<[state |-> "live", owner |-> MainThread, frees |-> 0]>>
  /\ ccaches = <<>>
  /\ cursors = <<>>
  /\ principals = <<>>
  /\ fnIn = [op |-> "none"]
  /\ lastOp = NoOp

Next ==
  \/ DepNext
  \/ \E c \in DOMAIN contexts : DropContextLock(MainThread, c)
  \/ DropContextFree(MainThread)

Spec == Init1 /\ [][Next]_vars

\* The context operations alone; a thread inside init, init_secure or drop
\* keeps running, so each thread's next step is taken if it stays possible.
ThreadStep(t) ==
  \/ InitNativeReturn(t)
  \/ InitReturn(t)
  \/ InitFailedDrop(t)
  \/ DropContextFree(t)
  \/ Continue(t)

LockSpec == Init /\ [][CtxNext]_vars /\ \A t \in Threads : WF_vars(ThreadStep(t))

\* ---- one call of a context-level function on a live context
MaxArgs   == 5       \* most name components handed to build_principal
MaxRealms == 2       \* most entries of a native realm array

\* What the native library may answer to a call: a zero status with its
\* output and no message, or a nonzero status with a message and no output.
Answers(outputs, codes) ==
  {[code |-> 0, out |-> o, msg |-> NullStr] : o \in outputs}
    \cup {[code |-> c, out |-> NullStr, msg |-> m] : c \in codes \ {0}, m \in NativePtrs}

BuildInputs ==
  {[op |-> "build_principal", realm |-> r, args |-> a, code |-> n.code, msg |-> n.msg] :
     r \in RustStrs, a \in SeqsUpTo({q \in RustStrs : Len(q) = 1}, MaxArgs),
     n \in Answers({NullStr}, NativeCodes)}

HostRealmInputs ==
  {[op |-> "get_host_realms", host |-> h, code |-> n.code, c_realms |-> n.out,
    msg |-> n.msg] :
     h \in {None} \cup {Some(q) : q \in RustStrs},
     n \in Answers(SeqsUpTo(NativeStrs, MaxRealms), NativeCodes)}

DefaultRealmInputs ==
  {[op |-> "get_default_realm", code |-> n.code, realm |-> n.out, msg |-> n.msg] :
     n \in Answers(NativePtrs, StatusCodes)}

EscapeInputs ==
  {[op |-> "krb5_error_code_escape_hatch", code |-> n.code, msg |-> n.msg] :
     n \in Answers({NullStr}, StatusCodes)}

\* krb5_cc_get_principal leaves a handle or the null handle on success and
\* stores nothing on failure.
GetPrincipalInputs ==
  {[op |-> "get_principal", code |-> 0, ptr |-> h, msg |-> NullStr] : h \in {NULL, 1}}
    \cup {[op |-> "get_principal", code |-> n.code, ptr |-> NULL, msg |-> n.msg] :
             n \in Answers({}, NativeCodes)}

CCacheInputs ==
  {[op |-> "default", code |-> n.code, msg |-> n.msg] : n \in Answers({NullStr}, NativeCodes)}
    \cup {[op |-> o, name |-> q, code |-> n.code, msg |-> n.msg] :
             o \in {"resolve", "new_unique"}, q \in RustStrs,
             n \in Answers({NullStr}, NativeCodes)}

CCColInputs ==
  {[op |-> "cccol_new", code |-> n.code, coll |-> n.out, msg |-> n.msg] :
     n \in Answers(0..MaxColl, NativeCodes)}

FnInputs ==
  BuildInputs \cup HostRealmInputs \cup DefaultRealmInputs \cup EscapeInputs
    \cup GetPrincipalInputs \cup CCacheInputs \cup CCColInputs

\* A thread holds a context from a successful init() and is about to make one
\* call with the drawn arguments (on a cache of that context, for
\* get_principal).
FnInit ==
  /\ fnIn \in FnInputs
  /\ lock = NoThread
  /\ poisoned = FALSE
  /\ pc = [t \in Threads |-> "idle"]
  /\ tl = [t \in Threads |-> Blank]
  /\ contexts = <<[state |-> "live", owner |-> MainThread, frees |-> 0]>>
  /\ ccaches = IF fnIn.op = "get_principal" THEN <<NewCCache(1)>> ELSE <<>>
  /\ cursors = <<>>
  /\ principals = <<>>
  /\ lastOp = NoOp

FnBuildPrincipal ==
  /\ fnIn.op = "build_principal" /\ lastOp.op = "none"
  /\ BuildPrincipal(1, fnIn.realm, fnIn.args, fnIn.code, fnIn.msg)

FnGetHostRealms ==
  /\ fnIn.op = "get_host_realms" /\ lastOp.op = "none"
  /\ GetHostRealms(1, fnIn.host, fnIn.code, fnIn.c_realms, fnIn.msg)

FnGetDefaultRealm ==
  /\ fnIn.op = "get_default_realm" /\ lastOp.op = "none"
  /\ GetDefaultRealm(1, fnIn.code, fnIn.realm, fnIn.msg)

FnErrorCodeEscapeHatch ==
  /\ fnIn.op = "krb5_error_code_escape_hatch" /\ lastOp.op = "none"
  /\ ErrorCodeEscapeHatch(1, fnIn.code, fnIn.msg)

FnCCacheGetPrincipal ==
  /\ fnIn.op = "get_principal" /\ lastOp.op = "none"
  /\ CCacheGetPrincipal(1, fnIn.code, fnIn.ptr, fnIn.msg, TRUE)

FnCCacheDefault ==
  /\ fnIn.op = "default" /\ lastOp.op = "none"
  /\ CCacheDefault(1, fnIn.code, fnIn.msg, TRUE)

FnCCacheResolve ==
  /\ fnIn.op = "resolve" /\ lastOp.op = "none"
  /\ CCacheResolve(1, fnIn.name, fnIn.code, fnIn.msg, TRUE)

FnCCacheNewUnique ==
  /\ fnIn.op = "new_unique" /\ lastOp.op = "none"
  /\ CCacheNewUnique(1, fnIn.name, fnIn.code, fnIn.msg, TRUE)

FnCCColNew ==
  /\ fnIn.op = "cccol_new" /\ lastOp.op = "none"
  /\ CCColNew(1, fnIn.code, IF fnIn.code = 0 THEN fnIn.coll ELSE 0, fnIn.msg, TRUE)

\* The call under study, and afterwards the use and the release of what it
\* returned.
FnNext ==
  \/ FnBuildPrincipal
  \/ FnGetHostRealms
  \/ FnGetDefaultRealm
  \/ FnErrorCodeEscapeHatch
  \/ FnCCacheGetPrincipal
  \/ FnCCacheDefault
  \/ FnCCacheResolve
  \/ FnCCacheNewUnique
  \/ FnCCColNew
  \/ \E k \in DOMAIN ccaches : CCacheDrop(k)
  \/ \E u \in DOMAIN cursors : CCColDrop(u)
  \/ \E p \in DOMAIN principals : PrincipalData(p)
  \/ \E p \in DOMAIN principals : PrincipalDataRealm(p)
  \/ \E p \in DOMAIN principals : PrincipalDataDrop(p)
  \/ \E p \in DOMAIN principals : PrincipalDrop(p)

FnSpec == FnInit /\ [][FnNext]_vars

\* ================================================================ claims
\* How often a native function occurs in a sequence of native calls.
Count(fn, calls) == Cardinality({i \in DOMAIN calls : calls[i] = fn})

\* Text with an interior NUL character.
HasNul(str) == \E i \in DOMAIN str : str[i] = 0

\* C1 (as claimed): over the lifetime of a credential cache value exactly one
\* native release call is made on its handle, krb5_cc_destroy or
\* krb5_cc_close, never both: none while it is live, one once it is gone, and
\* no krb5_cc_close after krb5_cc_destroy.
C1_SingleRelease ==
  \A k \in DOMAIN ccaches :
     /\ ccaches[k].state = "live" => ccaches[k].closes + ccaches[k].destroys = 0
     /\ ccaches[k].state = "gone" => ccaches[k].closes + ccaches[k].destroys = 1
     /\ ccaches[k].destroys > 0 => ccaches[k].closes = 0

\* C2 (as claimed): a nonzero status of the native advance makes next() yield
\* Some(Err(LibraryError)), not the None of the end of the sequence.
C2_FailedAdvanceYieldsErr ==
  \A u \in DOMAIN cursors :
     cursors[u].lastCode # 0 => cursors[u].last = "SomeErr"

\* C3 (as claimed): a call of init() / init_secure() whose native initializer
\* reported a nonzero status is on its way to its return or has returned a
\* LibraryError to its caller; it is never blocked for good (deadlocked on the
\* lock it holds itself) and never panics.
C3_FailedInitReturnsError ==
  \A t \in Threads :
     tl[t].code # 0 =>
       \/ pc[t] \in {"init_called", "init_failed_drop", "krb5_free_context"}
       \/ pc[t] = "returned" /\ tl[t].ret = "LibraryError"

\* C4: a thread is inside krb5_init_context, krb5_init_secure_context or
\* krb5_free_context only while it holds CONTEXT_INIT_LOCK, so at most one
\* thread at a time is inside one of them.
InNativeInit(t) ==
  pc[t] \in {"krb5_init_context", "krb5_init_secure_context", "krb5_free_context"}

C4_InitFreeSerialized ==
  /\ \A t \in Threads : InNativeInit(t) => lock = t
  /\ Cardinality({t \in Threads : InNativeInit(t)}) <= 1

\* C4 witness: a thread is inside krb5_free_context while another thread
\* owns a live context.
C4_Witness ==
  \E t \in Threads, c \in DOMAIN contexts :
     /\ pc[t] = "krb5_free_context"
     /\ contexts[c].state = "live"
     /\ contexts[c].owner # t

C6_Original ==
  (lastOp.op = "build_principal" /\ Len(fnIn.args) > MaxVarArgs)
     => (lastOp.kind = "MaxVarArgsExceeded" /\ lastOp.calls = <<>>)

\* C6 (amended): build_principal with more than MaxVarArgs components makes no
\* native call and fails: with StringConversion if the realm or a component
\* holds a NUL character, with MaxVarArgsExceeded otherwise.
C6_TooManyComponents ==
  (lastOp.op = "build_principal" /\ Len(fnIn.args) > MaxVarArgs)
     => /\ lastOp.calls = <<>>
        /\ lastOp.kind =
             (IF HasNul(fnIn.realm) \/ \E i \in DOMAIN fnIn.args : HasNul(fnIn.args[i])
              THEN "StringConversion" ELSE "MaxVarArgsExceeded")

\* C6 witness: a call with more than MaxVarArgs convertible components has
\* failed with MaxVarArgsExceeded.
C6_Witness ==
  /\ lastOp.op = "build_principal"
  /\ Len(fnIn.args) > MaxVarArgs
  /\ lastOp.kind = "MaxVarArgsExceeded"

\* C7: the successful elements a cursor has produced are the first caches of
\* the native collection, each once and in native order, never more than the
\* N it holds; and when an advance that did not fail produced no element, all
\* N had been produced.
C7_CursorYieldsCollection ==
  \A u \in DOMAIN cursors :
     /\ cursors[u].yielded = [i \in 1..Len(cursors[u].yielded) |-> i]
     /\ Len(cursors[u].yielded) <= cursors[u].coll
     /\ (cursors[u].last = "None" /\ cursors[u].lastCode = 0)
          => Len(cursors[u].yielded) = cursors[u].coll

\* C7 witness: a cursor over two or more caches has produced them all and then
\* ended the sequence.
C7_Witness ==
  \E u \in DOMAIN cursors :
     /\ cursors[u].coll >= 2
     /\ Len(cursors[u].yielded) = cursors[u].coll
     /\ cursors[u].last = "None"
     /\ cursors[u].lastCode = 0

\* C8: krb5_cccol_cursor_free has not been called on a live cursor, however
\* many next() calls it has served, and has been called exactly once on a
\* cursor that is gone.
C8_CursorFreedOnce ==
  \A u \in DOMAIN cursors :
     /\ cursors[u].state = "live" => cursors[u].frees = 0
     /\ cursors[u].state = "gone" => cursors[u].frees = 1

\* C8 witness: a cursor was dropped after it had produced an element but not
\* yet the whole collection.
C8_Witness ==
  \E u \in DOMAIN cursors :
     /\ cursors[u].state = "gone"
     /\ Len(cursors[u].yielded) >= 1
     /\ Len(cursors[u].yielded) < cursors[u].coll

\* C9 (as claimed): when the native call of get_host_realms (get_default_realm)
\* returned zero and a realm array (realm string), that buffer has been
\* released exactly once when the operation returns.
C9_RealmBufferReleased ==
  /\ (lastOp.op = "get_host_realms" /\ fnIn.code = 0
        /\ Count("krb5_get_host_realm", lastOp.calls) = 1)
       => Count("krb5_free_host_realm", lastOp.calls) = 1
  /\ (lastOp.op = "get_default_realm" /\ fnIn.code = 0 /\ fnIn.realm # NullStr)
       => Count("krb5_free_default_realm", lastOp.calls) = 1

\* C10 (as claimed): whenever the error translation has fetched a message
\* buffer with krb5_get_error_message, it has released it with
\* krb5_free_error_message exactly once when the error is returned.
C10_ErrorMessageReleased ==
  (lastOp.op # "none" /\ fnIn.msg # NullStr
     /\ Count("krb5_get_error_message", lastOp.calls) = 1)
    => Count("krb5_free_error_message", lastOp.calls) = 1

\* C11: get_default_realm returns Ok(None) exactly when the native status is
\* KRB5_CONFIG_NODEFREALM; on any other nonzero status it returns LibraryError;
\* on status zero it returns Ok(Some(realm)) or the error of the conversion,
\* never Ok(None).
C11_AbsentDefaultRealm ==
  lastOp.op = "get_default_realm" =>
    /\ (lastOp.kind = "Ok" /\ ~lastOp.val.some) <=> (fnIn.code = KRB5_CONFIG_NODEFREALM)
    /\ fnIn.code \notin {0, KRB5_CONFIG_NODEFREALM} => lastOp.kind = "LibraryError"
    /\ fnIn.code = 0 =>
         \/ /\ lastOp.kind = "Ok"
            /\ lastOp.val.some
            /\ c_string_to_string(fnIn.realm) = Ok(lastOp.val.v)
         \/ /\ lastOp.kind \in {"StringConversion", "NullPointerDereference"}
            /\ ~c_string_to_string(fnIn.realm).ok

\* C11 witness: the native call reported that no default realm is configured
\* and the operation returned Ok(None).
C11_Witness ==
  /\ lastOp.op = "get_default_realm"
  /\ fnIn.code = KRB5_CONFIG_NODEFREALM
  /\ lastOp.kind = "Ok"
  /\ ~lastOp.val.some

\* C12: get_principal on a live cache returns LibraryError when the native
\* status is nonzero; Ok(None) when the status is zero and the handle is null,
\* and then no principal value exists, so that krb5_free_principal is never
\* called for it; and otherwise Ok(Some(principal)), the one principal there
\* is, which owns the handle the native call returned.
C12_GetPrincipalResult ==
  lastOp.op = "get_principal" =>
    /\ fnIn.code # 0 => (lastOp.kind = "LibraryError" /\ principals = <<>>)
    /\ (fnIn.code = 0 /\ fnIn.ptr = NULL) =>
         (lastOp.kind = "Ok" /\ ~lastOp.val.some /\ principals = <<>>)
    /\ (fnIn.code = 0 /\ fnIn.ptr # NULL) =>
         /\ lastOp.kind = "Ok"
         /\ lastOp.val.some
         /\ lastOp.val.v = fnIn.ptr
         /\ Len(principals) = 1
         /\ principals[1].handle = fnIn.ptr
         /\ principals[1].cache = 1

\* C12 witness: the native call succeeded with a null handle and
\* get_principal returned Ok(None).
C12_Witness ==
  /\ lastOp.op = "get_principal"
  /\ fnIn.code = 0
  /\ fnIn.ptr = NULL
  /\ lastOp.kind = "Ok"
  /\ ~lastOp.val.some

\* The realm and every component convert to a null-terminated byte string.
Convertible(realm, args) ==
  /\ string_to_c_string(realm).ok
  /\ \A i \in DOMAIN args : string_to_c_string(args[i]).ok

\* C13: build_principal on a convertible realm and at most MaxVarArgs
\* convertible components, the native call succeeding, returns a principal;
\* and whenever realm() has been called on a view of a built principal it
\* returned exactly the realm given to build_principal.
C13_RealmRoundTrip ==
  /\ (lastOp.op = "build_principal" /\ Convertible(fnIn.realm, fnIn.args)
        /\ Len(fnIn.args) <= MaxVarArgs /\ fnIn.code = 0)
       => (lastOp.kind = "Ok" /\ Len(principals) = 1)
  /\ \A p \in DOMAIN principals :
        (principals[p].cache = 0 /\ principals[p].decoded # Unread)
          => principals[p].decoded = Ok(fnIn.realm)

\* C13 witness: realm() was called on a view of a principal built with a
\* realm of two characters and MaxVarArgs components.
C13_Witness ==
  /\ lastOp.op = "build_principal"
  /\ Len(fnIn.realm) = 2
  /\ Len(fnIn.args) = MaxVarArgs
  /\ \E p \in DOMAIN principals : principals[p].decoded = Ok(fnIn.realm)

\* C14: krb5_free_principal has not been called on the handle of a live
\* principal, whatever views of it were created, used and discarded, and has
\* been called exactly once on the handle of a principal that is gone, which no
\* view borrows any more.
C14_PrincipalFreedOnce ==
  \A p \in DOMAIN principals :
     /\ principals[p].state = "live" => principals[p].frees = 0
     /\ principals[p].state = "gone" =>
          (principals[p].frees = 1 /\ principals[p].views = 0)

\* C14 witness: a principal is gone after a view of it was created, used and
\* discarded.
C14_Witness ==
  \E p \in DOMAIN principals :
     /\ principals[p].state = "gone"
     /\ principals[p].decoded # Unread

\* C15: krb5_error_code_escape_hatch returns Ok for status zero without
\* asking the native library for a message, and LibraryError for every
\* nonzero status: with the decoded native message, or, when decoding fails,
\* with the text of the conversion error.
C15_EscapeHatchTotal ==
  lastOp.op = "krb5_error_code_escape_hatch" =>
    /\ fnIn.code = 0 => (lastOp.kind = "Ok" /\ lastOp.calls = <<>>)
    /\ fnIn.code # 0 =>
         /\ lastOp.kind = "LibraryError"
         /\ lastOp.val = (LET conv == c_string_to_string(fnIn.msg)
                          IN  IF conv.ok THEN conv.val ELSE Display(conv.val))

\* C15 witness: a nonzero status whose native message holds an invalid byte
\* was translated to a LibraryError carrying the text of the conversion error.
C15_Witness ==
  /\ lastOp.op = "krb5_error_code_escape_hatch"
  /\ fnIn.code # 0
  /\ fnIn.msg # NullStr
  /\ ~c_string_to_string(fnIn.msg).ok
  /\ lastOp.kind = "LibraryError"
  /\ lastOp.val = Display("StringConversion")

\* C18: when the native call of default, resolve, new_unique or of the cursor
\* constructor has returned a nonzero status, the constructor has returned
\* LibraryError and no cache and no cursor value exists, then or later, so
\* that no krb5_cc_close and no krb5_cccol_cursor_free is made for it.
C18_FailedAcquisition ==
  (lastOp.op \in {"default", "resolve", "new_unique", "cccol_new"}
     /\ lastOp.calls # <<>> /\ fnIn.code # 0)
    => (lastOp.kind = "LibraryError" /\ ccaches = <<>> /\ cursors = <<>>)

\* C18 witness: krb5_cc_resolve was called and failed, and resolve returned
\* LibraryError.
C18_Witness ==
  /\ lastOp.op = "resolve"
  /\ lastOp.calls # <<>>
  /\ Head(lastOp.calls) = "krb5_cc_resolve"
  /\ fnIn.code # 0
  /\ lastOp.kind = "LibraryError"

\* C19: build_principal on a realm or a component that does not convert to a
\* null-terminated byte string fails with StringConversion without a native
\* call, however many components are given: the conversions come before the
\* component count is looked at.
C19_ConversionBeforeCount ==
  (lastOp.op = "build_principal" /\ ~Convertible(fnIn.realm, fnIn.args))
    => (lastOp.kind = "StringConversion" /\ lastOp.calls = <<>>)

\* C19 witness: more than MaxVarArgs components, the last of which does not
\* convert, gave StringConversion.
C19_Witness ==
  /\ lastOp.op = "build_principal"
  /\ Len(fnIn.args) > MaxVarArgs
  /\ string_to_c_string(fnIn.realm).ok
  /\ ~string_to_c_string(fnIn.args[Len(fnIn.args)]).ok
  /\ lastOp.kind = "StringConversion"

\* C16 (as claimed): once an advance on a cursor has ended the sequence (a
\* nonzero status or a null handle), no later next() calls
\* krb5_cccol_cursor_next on it again and none yields an element.
\* In a step from a state where the last next() ended the sequence, the
\* cursor yields nothing and shows no status of another native advance.
C16_ExhaustedCursorStaysExhausted ==
  [][\A u \in DOMAIN cursors :
       cursors[u].last = "None" =>
         /\ cursors'[u].last = "None"
         /\ cursors'[u].yielded = cursors[u].yielded
         /\ cursors'[u].lastCode = cursors[u].lastCode
         /\ cursors'[u].pos = cursors[u].pos]_vars

\* C17 (as claimed): a cache yielded by a cursor has had no native release
\* call on its handle while it is live, whatever the cursor has done since
\* (advanced, been freed), is live only while its context is, and has had
\* exactly one release call, krb5_cc_close or krb5_cc_destroy, once it is gone.
C17_YieldedCacheIndependent ==
  \A k \in DOMAIN ccaches :
     ccaches[k].cursor # 0 =>
       /\ ccaches[k].state = "live" =>
            /\ ccaches[k].closes + ccaches[k].destroys = 0
            /\ contexts[ccaches[k].ctx].state = "live"
       /\ ccaches[k].state = "gone" => ccaches[k].closes + ccaches[k].destroys = 1

\* A thread is inside init(), init_secure() or the teardown of a context.
InsideContextOp(t) == pc[t] \notin {"idle", "returned", "panicked"}

\* C20 (as claimed): a thread that is about to call lock() in the teardown of
\* the context of a failed init(), or is blocked in that call, does not hold
\* CONTEXT_INIT_LOCK itself; and the lock is free whenever no thread is inside
\* init(), init_secure() or a context teardown.
C20_NoRelock ==
  /\ \A t \in Threads : pc[t] \in {"init_failed_drop", "deadlocked"} => lock # t
  /\ (\A t \in Threads : ~InsideContextOp(t)) => lock = NoThread

\* C21 (as claimed): every context handle a context operation has passed to
\* the native library (to krb5_get_error_message, to krb5_free_context) is a
\* handle a native initializer returned with status zero, never the handle a
\* failed initializer left unset, and was not freed before the call; and every
\* live cache, cursor and principal, whose operations pass their context's
\* handle on, belongs to a context that has not been freed.
C21_ValidContextHandle ==
  /\ \A t \in Threads : \A h \in tl[t].passed :
        /\ h # NULL
        /\ h \in DOMAIN contexts
        /\ contexts[h].frees <= 1
        /\ contexts[h].state # "freed"
  /\ \A k \in DOMAIN ccaches :
        ccaches[k].state = "live" => contexts[ccaches[k].ctx].state = "live"
  /\ \A u \in DOMAIN cursors :
        cursors[u].state = "live" => contexts[cursors[u].ctx].state = "live"
  /\ \A p \in DOMAIN principals :
        principals[p].state = "live" => contexts[principals[p].ctx].state = "live"

====
